---- MODULE Spec2Model ----
(***************************************************************************)
(* Model of the UserScriptSettings store (src/unnamed/part_002, the        *)
(* settings module): the definition registry, the value store, the change  *)
(* callbacks and the localStorage snapshot.                                *)
(***************************************************************************)
EXTENDS Integers, Sequences, FiniteSets, TLC

(***************************************************************************)
(* JavaScript values.  Every value is a record of one shape: t is the      *)
(* typeof tag, n the payload of a finite number or boolean, s the payload  *)
(* of a string or the name of a non-finite number.                         *)
(***************************************************************************)
Num(i) == [t |-> "number", n |-> i, s |-> "fin"]
NaN == [t |-> "number", n |-> 0, s |-> "NaN"]
Infinity == [t |-> "number", n |-> 0, s |-> "Infinity"]
Str(x) == [t |-> "string", n |-> 0, s |-> x]
Bool(b) == [t |-> "boolean", n |-> IF b THEN 1 ELSE 0, s |-> ""]
Null == [t |-> "null", n |-> 0, s |-> ""]
Undefined == [t |-> "undefined", n |-> 0, s |-> ""]

IsFinite(v) == v.t = "number" /\ v.s = "fin"

\* JSON.stringify of a primitive: the JSON text, identified with the JSON
\* value it denotes (the text is injective on JSON values); non-finite
\* numbers are written as null and undefined has no text.
JSONstringify(v) == IF v.t = "number" /\ ~IsFinite(v) THEN Null ELSE v

\* a === b
StrictEquals(a, b) == a = b /\ a # NaN

\* a < b on numbers; a comparison with NaN or undefined is false.
JsLess(a, b) ==
    IF a.t # "number" \/ b.t # "number" \/ a = NaN \/ b = NaN THEN FALSE
    ELSE IF a = Infinity THEN FALSE
    ELSE IF b = Infinity THEN TRUE
    ELSE a.n < b.n

\* String.prototype.length of the strings the model uses.
StrLength(v) == CASE v.s = "" -> 0 [] v.s = "a" -> 1 [] v.s = "b" -> 1
                  [] v.s = "c" -> 1 [] OTHER -> 2

\* Truthiness of a value (the && and ! tests of the code).
Truthy(v) == CASE v.t = "undefined" -> FALSE
               [] v.t = "null" -> FALSE
               [] v.t = "boolean" -> v.n = 1
               [] v.t = "string" -> v.s # ""
               [] OTHER -> v # NaN /\ (IsFinite(v) => v.n # 0)

(***************************************************************************)
(* Bounds of the model.                                                    *)
(***************************************************************************)
Keys == {"k1", "k2"}
Namespaces == {"nsA"}
ForeignNamespaces == {"nsB"}
Versions == {"1.0", "2.0"}
Callbacks == {"cb1", "cb2"}
MaxOps == 5
MaxValidateOps == 3
MaxInvocations == 4

\* Values handed to setSetting: string | number | boolean.
Values == {Num(1), Num(5), NaN, Str("a")}

EmptyMap == [k \in {} |-> Undefined]
MapSet(f, k, v) == [x \in (DOMAIN f) \cup {k} |-> IF x = k THEN v ELSE f[x]]
MapGet(f, k) == IF k \in DOMAIN f THEN f[k] ELSE Undefined

(***************************************************************************)
(* Setting definitions.  optKind names the type-specific bag present in    *)
(* definition.options ("none" when there is none); choices, min, max and   *)
(* maxLength are the fields of that bag, Undefined when not given.         *)
(* validator is "none" or the result the supplied predicate gives on the   *)
(* default value.                                                          *)
(***************************************************************************)
SettingType == {"dropdown", "radio", "checkbox", "number", "text", "color",
                "slider", "custom"}

Definition(key, type, defaultValue, optKind, choices, min, max, maxLength, validator) ==
    [key |-> key, type |-> type, defaultValue |-> defaultValue,
     optKind |-> optKind, choices |-> choices, min |-> min, max |-> max,
     maxLength |-> maxLength, validator |-> validator]

\* choices.some(choice => choice.value === defaultValue)
SomeChoice(choices, defaultValue) ==
    \E i \in 1..Len(choices) : StrictEquals(choices[i], defaultValue)

\* validateSettingDefinition as it would be if the radio case looked for
\* its choices under options.dropdown.
validateSettingDefinition_radioUsesDropdown(d) ==
    CASE d.type = "dropdown" ->
            /\ d.optKind = "dropdown"
            /\ SomeChoice(d.choices, d.defaultValue)
      [] d.type = "radio" ->
            /\ d.optKind = "dropdown"
            /\ SomeChoice(d.choices, d.defaultValue)
      [] d.type = "number" ->
            /\ d.defaultValue.t = "number"
            /\ d.optKind = "number" =>
                  /\ ~(d.min # Undefined /\ JsLess(d.defaultValue, d.min))
                  /\ ~(d.max # Undefined /\ JsLess(d.max, d.defaultValue))
      [] d.type = "slider" ->
            /\ d.defaultValue.t = "number"
            /\ d.optKind = "slider"
            /\ ~(JsLess(d.defaultValue, d.min) \/ JsLess(d.max, d.defaultValue))
      [] d.type = "color" -> d.defaultValue.t = "string"
      [] d.type = "text" ->
            /\ d.defaultValue.t = "string"
            /\ ~(/\ d.optKind = "text"
                 /\ Truthy(d.maxLength)
                 /\ JsLess(d.maxLength, Num(StrLength(d.defaultValue))))
      [] d.type = "checkbox" -> d.defaultValue.t = "boolean"
      [] OTHER -> TRUE

\* validateSettingDefinition: TRUE when it returns, FALSE when it throws.
\* A supplied validator is never called.
validateSettingDefinition(d) ==
    CASE d.type = "dropdown" ->
            /\ d.optKind = "dropdown"
            /\ SomeChoice(d.choices, d.defaultValue)
      [] d.type = "radio" ->
            /\ d.optKind = "radio"
            /\ SomeChoice(d.choices, d.defaultValue)
      [] d.type = "number" ->
            /\ d.defaultValue.t = "number"
            /\ d.optKind = "number" =>
                  /\ ~(d.min # Undefined /\ JsLess(d.defaultValue, d.min))
                  /\ ~(d.max # Undefined /\ JsLess(d.max, d.defaultValue))
      [] d.type = "slider" ->
            /\ d.defaultValue.t = "number"
            /\ d.optKind = "slider"
            /\ ~(JsLess(d.defaultValue, d.min) \/ JsLess(d.max, d.defaultValue))
      [] d.type = "color" -> d.defaultValue.t = "string"
      [] d.type = "text" ->
            /\ d.defaultValue.t = "string"
            /\ ~(/\ d.optKind = "text"
                 /\ Truthy(d.maxLength)
                 /\ JsLess(d.maxLength, Num(StrLength(d.defaultValue))))
      [] d.type = "checkbox" -> d.defaultValue.t = "boolean"
      [] OTHER -> TRUE

\* The definitions the model hands to defineSetting: for every key a number
\* with a range, and for k1 also a number whose default is not finite and a
\* dropdown whose default is none of its choices.
DefinitionsFor(k) ==
    { Definition(k, "number", Num(1), "number", << >>, Num(0), Num(2), Undefined, "none") }
    \cup (IF k # "k1" THEN {} ELSE
    { Definition(k, "number", Infinity, "none", << >>, Undefined, Undefined, Undefined, "none"),
      Definition(k, "dropdown", Str("c"), "dropdown", <<Str("a"), Str("b")>>,
                 Undefined, Undefined, Undefined, "none") })

Definitions == UNION { DefinitionsFor(k) : k \in Keys }

\* The definitions handed to defineSetting where validation itself is
\* examined, all for the key k1.  Dropdown and radio definitions: options
\* absent, under the own key or under the other type's key; choices empty,
\* ["a", "b"] or [1, "b"]; a default among the choices or not.
ChoiceDefinitions ==
    { Definition("k1", type, defaultValue, optKind, choices,
                 Undefined, Undefined, Undefined, "none") :
        type \in {"dropdown", "radio"},
        defaultValue \in {Str("a"), Str("c"), Num(1)},
        optKind \in {"none", "dropdown", "radio"},
        choices \in { << >>, <<Str("a"), Str("b")>>, <<Num(1), Str("b")>> } }

\* Custom and number definitions without a validator, with one that returns
\* true for the default ("accept") and with one that returns false for it
\* ("reject").
ValidatorDefinitions ==
    { Definition("k1", type, defaultValue, "none", << >>,
                 Undefined, Undefined, Undefined, validator) :
        type \in {"custom", "number"},
        defaultValue \in {Num(1), Str("a")},
        validator \in {"none", "accept", "reject"} }

\* Slider definitions: options.slider absent or present, each of min and
\* max given or left out, and a default inside the range, outside it, not a
\* number, or NaN.
SliderDefinitions ==
    { Definition("k1", "slider", defaultValue, optKind, << >>,
                 min, max, Undefined, "none") :
        defaultValue \in {Num(1), Num(5), NaN, Str("a")},
        optKind \in {"slider"},
        min \in {Undefined, Num(0)},
        max \in {Undefined, Num(2)} }
    \cup { Definition("k1", "slider", Num(1), "none", << >>,
                      Undefined, Undefined, Undefined, "none") }

\* Text definitions: options.text absent or present, maxLength left out, 0
\* or 1, and a default of length 0, 1 or 2, or not a string.
TextDefinitions ==
    { Definition("k1", "text", defaultValue, optKind, << >>,
                 Undefined, Undefined, maxLength, "none") :
        defaultValue \in {Str(""), Str("a"), Str("ab"), Num(1)},
        optKind \in {"text"},
        maxLength \in {Undefined, Num(0), Num(1)} }
    \cup { Definition("k1", "text", Str("ab"), "none", << >>,
                      Undefined, Undefined, Undefined, "none") }

\* Number definitions: options.number absent or present, each of min and max
\* given (0 among the bounds) or left out, and a default below, inside or
\* above the range, not a number, or NaN.
NumberDefinitions ==
    { Definition("k1", "number", defaultValue, optKind, << >>,
                 min, max, Undefined, "none") :
        defaultValue \in {Num(-1), Num(1), Num(5), NaN, Str("a")},
        optKind \in {"number"},
        min \in {Undefined, Num(0)},
        max \in {Undefined, Num(0), Num(2)} }
    \cup { Definition("k1", "number", Num(5), "none", << >>,
                      Undefined, Undefined, Undefined, "none") }

ValidationInputs ==
    ChoiceDefinitions \cup ValidatorDefinitions \cup SliderDefinitions
        \cup TextDefinitions \cup NumberDefinitions

(***************************************************************************)
(* State.                                                                  *)
(***************************************************************************)
VARIABLES
    instance,            \* UserScriptSettings.instance is set
    storageKey,          \* this.storageKey
    version,             \* this.version
    settings,            \* this.settings: key -> [value, isDefault]
    defaultSettings,     \* this.defaultSettings: [keys: insertion order, val: key -> default]
    settingDefinitions,  \* this.settingDefinitions: key -> definition
    changeCallbacks,     \* this.changeCallbacks: key -> callbacks in insertion order
    localStorage,        \* window.localStorage: storage key -> item
    lastCall,            \* the last call of the public API and what it did
    ops,                 \* number of calls of the API made so far
    mountedEffect        \* SettingsUI: the run of the change-listener effect that
                         \* awaits its cleanup (0 when there is none)

vars == <<instance, storageKey, version, settings, defaultSettings,
          settingDefinitions, changeCallbacks, localStorage, lastCall, ops,
          mountedEffect>>

SettingValue(value, flag) == [value |-> value, isDefault |-> flag]

\* Items of localStorage: no item, a text JSON.parse rejects (or that is no
\* snapshot object), or the text of a snapshot {version, settings}.
NoItem == [kind |-> "none", version |-> "", settings |-> EmptyMap]
CorruptItem == [kind |-> "corrupt", version |-> "", settings |-> EmptyMap]
SnapshotItem(ver, stored) == [kind |-> "snapshot", version |-> ver, settings |-> stored]

\* JSON.stringify({version, settings: Object.fromEntries(settings)}): every
\* entry is written field by field.
SerializeSettings(ver, sts) ==
    SnapshotItem(ver, [k \in DOMAIN sts |->
        SettingValue(JSONstringify(sts[k].value), sts[k].isDefault)])

\* Snapshots an earlier run of the program (with other definitions) can
\* have left in storage.
StoredEntries == { SettingValue(Num(1), FALSE), SettingValue(Num(5), TRUE) }
StoredSnapshots == { SnapshotItem("1.0", [k \in {"k1"} |-> e]) : e \in StoredEntries }
InitialItems == {NoItem, CorruptItem} \cup StoredSnapshots

\* The state of the object while a call runs, threaded through the steps
\* of the call: calls are the observer invocations made so far, err is
\* "none" until something throws.
This == [storageKey |-> storageKey, version |-> version, settings |-> settings,
         defaultSettings |-> defaultSettings, settingDefinitions |-> settingDefinitions,
         changeCallbacks |-> changeCallbacks, localStorage |-> localStorage,
         calls |-> << >>, err |-> "none"]

\* One invocation of an observer: the callback, its arguments, what
\* getSetting(key) and the stored item are while it runs, and whether it
\* threw.
Invocation(st, callback, key, newValue, oldValue, threw) ==
    [cb |-> callback, key |-> key, newValue |-> newValue, oldValue |-> oldValue,
     seenValue |-> st.settings[key].value,
     seenItem |-> st.localStorage[st.storageKey],
     threw |-> threw]

\* The record of a call: the method, its arguments, the error it raised,
\* the value it returned, the observer invocations it made, and whether
\* storage accepted the writes the call attempted.  readOk is FALSE only
\* for an initialize that ran the constructor while getItem threw.
Call(op, key, value, err, ret, calls, writeOk) ==
    [op |-> op, key |-> key, value |-> value, err |-> err, ret |-> ret,
     calls |-> calls, writeOk |-> writeOk, readOk |-> TRUE]

(***************************************************************************)
(* The methods of the store, as functions of the object state st.          *)
(***************************************************************************)

\* saveSettings as it would be if its catch block rethrew the exception of
\* setItem.
saveSettings_rethrows(st, writeOk) ==
    IF writeOk
    THEN [st EXCEPT !.localStorage =
              [@ EXCEPT ![st.storageKey] = SerializeSettings(st.version, st.settings)]]
    ELSE [st EXCEPT !.err = "SaveError"]

\* saveSettings: writeOk is FALSE when localStorage.setItem throws; the
\* exception is caught and logged.
saveSettings(st, writeOk) ==
    IF writeOk
    THEN [st EXCEPT !.localStorage =
              [@ EXCEPT ![st.storageKey] = SerializeSettings(st.version, st.settings)]]
    ELSE st

\* callbacks.forEach(callback => callback(value, oldSetting.value)): the
\* callbacks in throwing throw when invoked, which ends the forEach.
\* The dispatch as it would be if each callback ran in its own try block and
\* the first exception were rethrown after the loop.
RECURSIVE notify_isolating(_, _, _, _, _, _)
notify_isolating(st, callbacks, key, value, oldValue, throwing) ==
    IF callbacks = << >> THEN st
    ELSE LET callback == Head(callbacks)
             invoked == [st EXCEPT !.calls =
                 Append(@, Invocation(st, callback, key, value, oldValue,
                                      callback \in throwing))]
         IN notify_isolating(
                IF callback \in throwing THEN [invoked EXCEPT !.err = "CallbackError"]
                                          ELSE invoked,
                Tail(callbacks), key, value, oldValue, throwing)

RECURSIVE notify(_, _, _, _, _, _)
notify(st, callbacks, key, value, oldValue, throwing) ==
    IF callbacks = << >> THEN st
    ELSE LET callback == Head(callbacks)
             invoked == [st EXCEPT !.calls =
                 Append(@, Invocation(st, callback, key, value, oldValue,
                                      callback \in throwing))]
         IN IF callback \in throwing
            THEN [invoked EXCEPT !.err = "CallbackError"]
            ELSE notify(invoked, Tail(callbacks), key, value, oldValue, throwing)

\* setSetting as it would be if it re-validated the value against the
\* key's definition, as defineSetting validates a default.
setSetting_validating(st, key, value, writeOk, throwing) ==
    IF key \notin DOMAIN st.settings
    THEN [st EXCEPT !.err = "NotFound"]
    ELSE IF /\ key \in DOMAIN st.settingDefinitions
            /\ ~validateSettingDefinition(
                   [st.settingDefinitions[key] EXCEPT !.defaultValue = value])
    THEN [st EXCEPT !.err = "DefinitionError"]
    ELSE LET oldSetting == st.settings[key]
             defaultValue == MapGet(st.defaultSettings.val, key)
             flag == JSONstringify(value) = JSONstringify(defaultValue)
             stored == [st EXCEPT !.settings[key] = SettingValue(value, flag)]
             saved == saveSettings(stored, writeOk)
         IN notify(saved, st.changeCallbacks[key], key, value, oldSetting.value, throwing)

\* setSetting as it would be if it dispatched to the observers before it
\* saved.
setSetting_notifyBeforeSave(st, key, value, writeOk, throwing) ==
    IF key \notin DOMAIN st.settings
    THEN [st EXCEPT !.err = "NotFound"]
    ELSE LET oldSetting == st.settings[key]
             defaultValue == MapGet(st.defaultSettings.val, key)
             flag == JSONstringify(value) = JSONstringify(defaultValue)
             stored == [st EXCEPT !.settings[key] = SettingValue(value, flag)]
             notified == notify(stored, st.changeCallbacks[key], key, value,
                                oldSetting.value, throwing)
         IN saveSettings(notified, writeOk)

\* setSetting as it would be if it read the old setting after storing the
\* new one.
setSetting_oldReadLate(st, key, value, writeOk, throwing) ==
    IF key \notin DOMAIN st.settings
    THEN [st EXCEPT !.err = "NotFound"]
    ELSE LET defaultValue == MapGet(st.defaultSettings.val, key)
             flag == JSONstringify(value) = JSONstringify(defaultValue)
             stored == [st EXCEPT !.settings[key] = SettingValue(value, flag)]
             oldSetting == stored.settings[key]
             saved == saveSettings(stored, writeOk)
         IN notify(saved, st.changeCallbacks[key], key, value, oldSetting.value, throwing)

setSetting(st, key, value, writeOk, throwing) ==
    IF key \notin DOMAIN st.settings
    THEN [st EXCEPT !.err = "NotFound"]
    ELSE LET oldSetting == st.settings[key]
             defaultValue == MapGet(st.defaultSettings.val, key)
             flag == JSONstringify(value) = JSONstringify(defaultValue)
             stored == [st EXCEPT !.settings[key] = SettingValue(value, flag)]
             saved == saveSettings(stored, writeOk)
         IN notify(saved, st.changeCallbacks[key], key, value, oldSetting.value, throwing)

\* resetToDefault as it would be if it returned early for a setting whose
\* flag says it is at its default.
resetToDefault_trustsFlag(st, key, writeOk, throwing) ==
    LET defaultValue == MapGet(st.defaultSettings.val, key)
    IN IF defaultValue = Undefined
       THEN [st EXCEPT !.err = "NotFound"]
       ELSE IF st.settings[key].isDefault THEN st
       ELSE setSetting(st, key, defaultValue, writeOk, throwing)

\* resetToDefault as it would be if it stored the default and saved without
\* going through setSetting: no observer is told.
resetToDefault_silent(st, key, writeOk, throwing) ==
    LET defaultValue == MapGet(st.defaultSettings.val, key)
    IN IF defaultValue = Undefined
       THEN [st EXCEPT !.err = "NotFound"]
       ELSE saveSettings([st EXCEPT !.settings =
                              MapSet(@, key, SettingValue(defaultValue, TRUE))],
                         writeOk)

resetToDefault(st, key, writeOk, throwing) ==
    LET defaultValue == MapGet(st.defaultSettings.val, key)
    IN IF defaultValue = Undefined
       THEN [st EXCEPT !.err = "NotFound"]
       ELSE setSetting(st, key, defaultValue, writeOk, throwing)

\* defaultSettings.forEach((defaultValue, key) => setSetting(key, defaultValue)),
\* over the keys that are left; an exception ends the forEach.
RECURSIVE resetAllFrom(_, _, _, _)
resetAllFrom(st, keys, writeOk, throwing) ==
    IF keys = << >> \/ st.err # "none" THEN st
    ELSE resetAllFrom(
             setSetting(st, Head(keys), st.defaultSettings.val[Head(keys)], writeOk, throwing),
             Tail(keys), writeOk, throwing)

\* resetAllToDefaults as it would be if it went through the keys in the
\* reverse of the registration order.
resetAllToDefaults_reversed(st, writeOk, throwing) ==
    LET keys == st.defaultSettings.keys
    IN resetAllFrom(st, [i \in 1..Len(keys) |-> keys[Len(keys) + 1 - i]], writeOk, throwing)

resetAllToDefaults(st, writeOk, throwing) ==
    resetAllFrom(st, st.defaultSettings.keys, writeOk, throwing)

\* loadSettings as it would be if it copied the stored entries whatever
\* version the snapshot carries.
loadSettings_ignoresVersion(st, readOk, writeOk, throwing) ==
    LET item == st.localStorage[st.storageKey]
    IN IF ~readOk \/ item.kind = "corrupt"
       THEN resetAllToDefaults(st, writeOk, throwing)
       ELSE IF item.kind = "none" THEN st
       ELSE [st EXCEPT !.settings =
                [k \in (DOMAIN st.settings) \cup (DOMAIN item.settings) |->
                    IF k \in DOMAIN item.settings THEN item.settings[k] ELSE st.settings[k]]]

\* loadSettings as it would be without its try/catch: the exception of
\* getItem or JSON.parse leaves the method.
loadSettings_noCatch(st, readOk, writeOk, throwing) ==
    LET item == st.localStorage[st.storageKey]
    IN IF ~readOk \/ item.kind = "corrupt"
       THEN [st EXCEPT !.err = "LoadError"]
       ELSE IF item.kind = "none" THEN st
       ELSE IF item.version # st.version
       THEN resetAllToDefaults(st, writeOk, throwing)
       ELSE [st EXCEPT !.settings =
                [k \in (DOMAIN st.settings) \cup (DOMAIN item.settings) |->
                    IF k \in DOMAIN item.settings THEN item.settings[k] ELSE st.settings[k]]]

\* loadSettings: readOk is FALSE when localStorage.getItem throws.  A read
\* or parse that throws, and a version mismatch, end in resetAllToDefaults,
\* whose own exceptions the catch block does not catch.
loadSettings(st, readOk, writeOk, throwing) ==
    LET item == st.localStorage[st.storageKey]
    IN IF ~readOk \/ item.kind = "corrupt"
       THEN resetAllToDefaults(st, writeOk, throwing)
       ELSE IF item.kind = "none" THEN st
       ELSE IF item.version # st.version
       THEN resetAllToDefaults(st, writeOk, throwing)
       ELSE [st EXCEPT !.settings =
                [k \in (DOMAIN st.settings) \cup (DOMAIN item.settings) |->
                    IF k \in DOMAIN item.settings THEN item.settings[k] ELSE st.settings[k]]]

\* new UserScriptSettings(storageKey, version)
constructor(st, ns, ver, readOk, writeOk) ==
    loadSettings([st EXCEPT !.storageKey = ns, !.version = ver], readOk, writeOk, {})

\* defineSetting as it would be if it seeded the value from defaultSettings
\* before registering the new default there.
defineSetting_seedsOldDefault(st, definition) ==
    IF ~validateSettingDefinition(definition)
    THEN [st EXCEPT !.err = "DefinitionError"]
    ELSE [st EXCEPT
            !.defaultSettings =
                [keys |-> IF definition.key \in DOMAIN @.val
                          THEN @.keys ELSE Append(@.keys, definition.key),
                 val |-> MapSet(@.val, definition.key, definition.defaultValue)],
            !.settingDefinitions = MapSet(@, definition.key, definition),
            !.settings = IF definition.key \notin DOMAIN @
                         THEN MapSet(@, definition.key,
                                     SettingValue(MapGet(st.defaultSettings.val,
                                                         definition.key), TRUE))
                         ELSE @]

\* defineSetting as it would be if it stored the default whether or not the
\* key holds a value.
defineSetting_alwaysSeeds(st, definition) ==
    IF ~validateSettingDefinition(definition)
    THEN [st EXCEPT !.err = "DefinitionError"]
    ELSE [st EXCEPT
            !.defaultSettings =
                [keys |-> IF definition.key \in DOMAIN @.val
                          THEN @.keys ELSE Append(@.keys, definition.key),
                 val |-> MapSet(@.val, definition.key, definition.defaultValue)],
            !.settingDefinitions = MapSet(@, definition.key, definition),
            !.settings = MapSet(@, definition.key,
                                SettingValue(definition.defaultValue, TRUE))]

\* defineSetting as it would be if it validated after registering the
\* definition and its default.
defineSetting_validatesLast(st, definition) ==
    LET registered ==
          [st EXCEPT
            !.defaultSettings =
                [keys |-> IF definition.key \in DOMAIN @.val
                          THEN @.keys ELSE Append(@.keys, definition.key),
                 val |-> MapSet(@.val, definition.key, definition.defaultValue)],
            !.settingDefinitions = MapSet(@, definition.key, definition)]
    IN IF ~validateSettingDefinition(definition)
       THEN [registered EXCEPT !.err = "DefinitionError"]
       ELSE [registered EXCEPT
               !.settings = IF definition.key \in DOMAIN @
                            THEN @
                            ELSE MapSet(@, definition.key,
                                        SettingValue(definition.defaultValue, TRUE))]

\* defineSetting as it would be if a re-registration kept the options of the
\* earlier definition that the new one leaves out.
defineSetting_mergesOptions(st, definition) ==
    LET old == MapGet(st.settingDefinitions, definition.key)
        merged == IF definition.key \in DOMAIN st.settingDefinitions
                     /\ definition.optKind = "none"
                  THEN [definition EXCEPT !.optKind = old.optKind, !.choices = old.choices,
                                          !.min = old.min, !.max = old.max,
                                          !.maxLength = old.maxLength]
                  ELSE definition
    IN IF ~validateSettingDefinition(definition)
       THEN [st EXCEPT !.err = "DefinitionError"]
       ELSE [st EXCEPT
               !.defaultSettings =
                   [keys |-> IF definition.key \in DOMAIN @.val
                             THEN @.keys ELSE Append(@.keys, definition.key),
                    val |-> MapSet(@.val, definition.key, definition.defaultValue)],
               !.settingDefinitions = MapSet(@, definition.key, merged),
               !.settings = IF definition.key \in DOMAIN @
                            THEN @
                            ELSE MapSet(@, definition.key,
                                        SettingValue(definition.defaultValue, TRUE))]

defineSetting(st, definition) ==
    IF ~validateSettingDefinition(definition)
    THEN [st EXCEPT !.err = "DefinitionError"]
    ELSE [st EXCEPT
            !.defaultSettings =
                [keys |-> IF definition.key \in DOMAIN @.val
                          THEN @.keys ELSE Append(@.keys, definition.key),
                 val |-> MapSet(@.val, definition.key, definition.defaultValue)],
            !.settingDefinitions = MapSet(@, definition.key, definition),
            !.settings = IF definition.key \notin DOMAIN @
                         THEN MapSet(@, definition.key,
                                     SettingValue(definition.defaultValue, TRUE))
                         ELSE @]

\* onSettingChange as it would be if the subscribers of a key were kept in
\* an array: every registration is appended.
onSettingChange_appends(st, key, callback) ==
    [st EXCEPT !.changeCallbacks[key] = Append(@, callback)]

\* Set.prototype.add: a callback already in the set keeps its place.
onSettingChange(st, key, callback) ==
    [st EXCEPT !.changeCallbacks[key] =
        IF \E i \in 1..Len(@) : @[i] = callback THEN @ ELSE Append(@, callback)]

\* removeSettingChangeListener as it would be if it dropped every subscriber
\* of the key.
removeSettingChangeListener_clearsKey(st, key, callback) ==
    [st EXCEPT !.changeCallbacks[key] = << >>]

\* Set.prototype.delete: the other callbacks keep their order.
removeSettingChangeListener(st, key, callback) ==
    [st EXCEPT !.changeCallbacks[key] = SelectSeq(@, LAMBDA c : c # callback)]

getSetting(key) ==
    IF key \notin DOMAIN settings
    THEN [err |-> "NotFound", ret |-> Undefined]
    ELSE [err |-> "none", ret |-> settings[key].value]

\* getAllSettings: an object with one property per registered key, holding
\* the registered definition.
getAllSettings == [k \in DOMAIN settingDefinitions |-> settingDefinitions[k]]

\* setting?.isDefault ?? true
isDefault(key) ==
    IF key \notin DOMAIN settings THEN TRUE ELSE settings[key].isDefault

(***************************************************************************)
(* Observers that change the subscriptions of the key while they run.      *)
(* callbacks.forEach iterates the live Set: an entry deleted before its     *)
(* turn is skipped, an entry added during the iteration is visited, and an  *)
(* entry deleted and added again is visited again.                          *)
(***************************************************************************)

\* What the body of a callback does besides returning: nothing, removing
\* the other callback from the key, subscribing the other callback to the
\* key, or removing and re-subscribing itself.
Effects == {"none", "unsubscribeOther", "subscribeOther", "resubscribe"}

Other(callback) == CHOOSE c \in Callbacks : c # callback

CallbackBody(st, key, callback, effect) ==
    CASE effect = "unsubscribeOther" ->
            removeSettingChangeListener(st, key, Other(callback))
      [] effect = "subscribeOther" ->
            onSettingChange(st, key, Other(callback))
      [] effect = "resubscribe" ->
            onSettingChange(removeSettingChangeListener(st, key, callback), key, callback)
      [] OTHER -> st

\* The iteration from the i-th entry of the live subscriber list on.  An
\* entry deleted at or before the current position moves the later entries
\* one place down.  A dispatch that has made MaxInvocations invocations and
\* still has entries to visit is cut and reported as not returning.
RECURSIVE notifyLive(_, _, _, _, _, _)
notifyLive(st, key, i, value, oldValue, effects) ==
    LET subscribers == st.changeCallbacks[key]
    IN IF i > Len(subscribers) THEN st
       ELSE IF Len(st.calls) >= MaxInvocations THEN [st EXCEPT !.err = "NoReturn"]
       ELSE LET callback == subscribers[i]
                invoked == [st EXCEPT !.calls =
                    Append(@, Invocation(st, callback, key, value, oldValue, FALSE))]
                effect == effects[callback]
                deleted == CASE effect = "resubscribe" -> {i}
                             [] effect = "unsubscribeOther" ->
                                   {j \in 1..Len(subscribers) : subscribers[j] = Other(callback)}
                             [] OTHER -> {}
                next == i + 1 - Cardinality({j \in deleted : j <= i})
            IN notifyLive(CallbackBody(invoked, key, callback, effect),
                          key, next, value, oldValue, effects)

\* setSetting when the observers behave as effects says.
setSettingLive(st, key, value, writeOk, effects) ==
    IF key \notin DOMAIN st.settings
    THEN [st EXCEPT !.err = "NotFound"]
    ELSE LET oldSetting == st.settings[key]
             defaultValue == MapGet(st.defaultSettings.val, key)
             flag == JSONstringify(value) = JSONstringify(defaultValue)
             stored == [st EXCEPT !.settings[key] = SettingValue(value, flag)]
             saved == saveSettings(stored, writeOk)
         IN notifyLive(saved, key, 1, value, oldSetting.value, effects)

(***************************************************************************)
(* Initial state: the page has loaded, initialize() has not been called,   *)
(* and storage holds what earlier runs left.                               *)
(***************************************************************************)
Init ==
    /\ instance = FALSE
    /\ storageKey = ""
    /\ version = ""
    /\ settings = EmptyMap
    /\ defaultSettings = [keys |-> << >>, val |-> EmptyMap]
    /\ settingDefinitions = EmptyMap
    /\ changeCallbacks = [k \in Keys |-> << >>]
    /\ localStorage \in { items \in [Namespaces \cup ForeignNamespaces -> InitialItems] :
                            \A ns \in ForeignNamespaces : items[ns] = NoItem }
    /\ lastCall = Call("none", "", Undefined, "none", Undefined, << >>, TRUE)
    /\ ops = 0
    /\ mountedEffect = 0

(***************************************************************************)
(* The public API, one action per method.  Every call is counted.          *)
(***************************************************************************)

\* The object after a call.
Becomes(st) ==
    /\ storageKey' = st.storageKey
    /\ version' = st.version
    /\ settings' = st.settings
    /\ defaultSettings' = st.defaultSettings
    /\ settingDefinitions' = st.settingDefinitions
    /\ changeCallbacks' = st.changeCallbacks
    /\ localStorage' = st.localStorage

\* A call of the store is counted; the store knows nothing of the
\* component, whose effect stays as it is.
Counted ==
    /\ ops < MaxOps
    /\ ops' = ops + 1
    /\ UNCHANGED mountedEffect

\* initialize as it would be if every call ran the constructor.
Initialize_reconstructs(ns, ver, readOk, writeOk) ==
    /\ Counted
    /\ instance' = TRUE
    /\ LET done == constructor(This, ns, ver, readOk, writeOk)
       IN /\ Becomes(done)
          /\ lastCall' = [Call("initialize", ns, Str(ver), done.err, Undefined, << >>, TRUE)
                              EXCEPT !.readOk = readOk]

\* UserScriptSettings.initialize(storageKey, version): the first call runs
\* the constructor, later calls return the instance.
Initialize(ns, ver, readOk, writeOk) ==
    /\ Counted
    /\ instance' = TRUE
    /\ LET done == IF instance THEN This ELSE constructor(This, ns, ver, readOk, writeOk)
       IN /\ Becomes(done)
          /\ lastCall' = [Call("initialize", ns, Str(ver), done.err, Undefined, << >>, TRUE)
                              EXCEPT !.readOk = instance \/ readOk]

\* getInstance as it would be without the check of the instance.
GetInstance_neverThrows ==
    /\ Counted
    /\ lastCall' = Call("getInstance", "", Undefined, "none", Undefined, << >>, TRUE)
    /\ UNCHANGED <<instance, storageKey, version, settings, defaultSettings,
                   settingDefinitions, changeCallbacks, localStorage>>

\* UserScriptSettings.getInstance()
GetInstance ==
    /\ Counted
    /\ lastCall' = Call("getInstance", "", Undefined,
                        IF instance THEN "none" ELSE "NotInitialized", Undefined, << >>, TRUE)
    /\ UNCHANGED <<instance, storageKey, version, settings, defaultSettings,
                   settingDefinitions, changeCallbacks, localStorage>>

DefineSetting(definition) ==
    /\ instance
    /\ Counted
    /\ LET done == defineSetting(This, definition)
       IN /\ Becomes(done)
          /\ lastCall' = Call("defineSetting", definition.key, definition.defaultValue,
                              done.err, Undefined, done.calls, TRUE)
    /\ UNCHANGED instance

GetSetting(key) ==
    /\ instance
    /\ Counted
    /\ lastCall' = Call("getSetting", key, Undefined, getSetting(key).err,
                        getSetting(key).ret, << >>, TRUE)
    /\ UNCHANGED <<instance, storageKey, version, settings, defaultSettings,
                   settingDefinitions, changeCallbacks, localStorage>>

IsDefault(key) ==
    /\ instance
    /\ Counted
    /\ lastCall' = Call("isDefault", key, Undefined, "none", Bool(isDefault(key)), << >>, TRUE)
    /\ UNCHANGED <<instance, storageKey, version, settings, defaultSettings,
                   settingDefinitions, changeCallbacks, localStorage>>

SetSetting(key, value, writeOk, throwing) ==
    /\ instance
    /\ Counted
    /\ LET done == setSetting(This, key, value, writeOk, throwing)
       IN /\ Becomes(done)
          /\ lastCall' = Call("setSetting", key, value, done.err, Undefined,
                              done.calls, writeOk)
    /\ UNCHANGED instance

ResetToDefault(key, writeOk, throwing) ==
    /\ instance
    /\ Counted
    /\ LET done == resetToDefault(This, key, writeOk, throwing)
       IN /\ Becomes(done)
          /\ lastCall' = Call("resetToDefault", key, Undefined, done.err, Undefined,
                              done.calls, writeOk)
    /\ UNCHANGED instance

ResetAllToDefaults(writeOk, throwing) ==
    /\ instance
    /\ Counted
    /\ LET done == resetAllToDefaults(This, writeOk, throwing)
       IN /\ Becomes(done)
          /\ lastCall' = Call("resetAllToDefaults", "", Undefined, done.err, Undefined,
                              done.calls, writeOk)
    /\ UNCHANGED instance

OnSettingChange(key, callback) ==
    /\ instance
    /\ Counted
    /\ Becomes(onSettingChange(This, key, callback))
    /\ lastCall' = Call("onSettingChange", key, Str(callback), "none", Undefined, << >>, TRUE)
    /\ UNCHANGED instance

RemoveSettingChangeListener(key, callback) ==
    /\ instance
    /\ Counted
    /\ Becomes(removeSettingChangeListener(This, key, callback))
    /\ lastCall' = Call("removeSettingChangeListener", key, Str(callback), "none", Undefined,
                        << >>, TRUE)
    /\ UNCHANGED instance

\* The callbacks subscribed to some of the keys: the ones a call on those
\* keys can invoke, and so the ones that can throw in it.
Subscribed(keys) ==
    UNION { { changeCallbacks[k][i] : i \in 1..Len(changeCallbacks[k]) } : k \in keys }

\* The constructor attempts no write (its resetAllToDefaults runs over no
\* defaults) and a later initialize attempts no read, so those outcomes are
\* not varied.
Next ==
    \/ \E ns \in Namespaces, ver \in Versions, readOk \in BOOLEAN :
          ~instance /\ Initialize(ns, ver, readOk, TRUE)
    \/ \E ns \in Namespaces \cup ForeignNamespaces, ver \in Versions :
          instance /\ Initialize(ns, ver, TRUE, TRUE)
    \/ GetInstance
    \/ \E definition \in Definitions : DefineSetting(definition)
    \/ \E key \in Keys : GetSetting(key)
    \/ \E key \in Keys : IsDefault(key)
    \/ \E key \in Keys, value \in Values, writeOk \in BOOLEAN :
          \E throwing \in SUBSET Subscribed({key}) :
             SetSetting(key, value, writeOk, throwing)
    \/ \E key \in Keys, writeOk \in BOOLEAN :
          \E throwing \in SUBSET Subscribed({key}) :
             ResetToDefault(key, writeOk, throwing)
    \/ \E writeOk \in BOOLEAN, throwing \in SUBSET Subscribed(Keys) :
          ResetAllToDefaults(writeOk, throwing)
    \/ \E key \in Keys, callback \in Callbacks : OnSettingChange(key, callback)
    \/ \E key \in Keys, callback \in Callbacks : RemoveSettingChangeListener(key, callback)

Spec == Init /\ [][Next]_vars

\* Validation on its own: a store constructed over empty storage, and
\* definitions of every shape handed to defineSetting.
InitValidate ==
    /\ Init
    /\ \A ns \in DOMAIN localStorage : localStorage[ns] = NoItem

NextValidate ==
    /\ ops < MaxValidateOps
    /\ \/ \E ns \in Namespaces : Initialize(ns, "1.0", TRUE, TRUE)
       \/ \E definition \in ValidationInputs : DefineSetting(definition)

SpecValidate == InitValidate /\ [][NextValidate]_vars

\* setSetting(key, value) with observers that subscribe and unsubscribe
\* while the dispatch runs.
SetSettingLive(key, value, writeOk, effects) ==
    /\ instance
    /\ Counted
    /\ LET done == setSettingLive(This, key, value, writeOk, effects)
       IN /\ Becomes(done)
          /\ lastCall' = Call("setSetting", key, value, done.err, Undefined,
                              done.calls, writeOk)
    /\ UNCHANGED instance

\* Dispatch on its own: a store over empty storage, the key k2 with one
\* definition, subscriptions, and calls of setSetting whose observers change
\* the subscriptions of k2.
NextLive ==
    \/ \E ns \in Namespaces : Initialize(ns, "1.0", TRUE, TRUE)
    \/ \E definition \in DefinitionsFor("k2") : DefineSetting(definition)
    \/ \E callback \in Callbacks : OnSettingChange("k2", callback)
    \/ \E value \in Values, effects \in [Callbacks -> Effects] :
          SetSettingLive("k2", value, TRUE, effects)

SpecLive == InitValidate /\ [][NextLive]_vars

(***************************************************************************)
(* Properties.                                                             *)
(***************************************************************************)
Defined == DOMAIN settingDefinitions
LastKey == lastCall.key
NumCalls == Len(lastCall.calls)

\* C1: after setSetting(key, v) on a defined key, whatever v is, the store
\* has raised no error of its own (the only exception is one an observer
\* threw) and getSetting(key) returns exactly v.
C1_SetThenGet ==
    (lastCall.op = "setSetting" /\ LastKey \in Defined) =>
        /\ lastCall.err \in {"none", "CallbackError"}
        /\ lastCall.err = "CallbackError" =>
              (NumCalls > 0 /\ lastCall.calls[NumCalls].threw)
        /\ getSetting(LastKey) = [err |-> "none", ret |-> lastCall.value]

\* C1 witness: setSetting returned normally for a value the key's
\* definition would reject as a default (mistyped or out of range).
C1_Witness ==
    /\ lastCall.op = "setSetting"
    /\ LastKey \in Defined
    /\ lastCall.err = "none"
    /\ ~validateSettingDefinition(
           [settingDefinitions[LastKey] EXCEPT !.defaultValue = lastCall.value])
    /\ getSetting(LastKey).ret = lastCall.value

\* C2 as stated: after every successful defineSetting, getSetting(key)
\* returns the definition's default and isDefault(key) is true.
C2_Original ==
    (lastCall.op = "defineSetting" /\ lastCall.err = "none") =>
        /\ getSetting(LastKey) = [err |-> "none", ret |-> lastCall.value]
        /\ isDefault(LastKey)

\* C2 amended: a successful defineSetting for a key that holds no value in
\* the store when it is called leaves getSetting(key) at the definition's
\* default and isDefault(key) true.
C2_DefineSeedsDefault ==
    [][(/\ lastCall'.op = "defineSetting"
        /\ lastCall'.err = "none"
        /\ lastCall'.key \notin DOMAIN settings)
       => (/\ lastCall'.key \in DOMAIN settings'
           /\ settings'[lastCall'.key] = SettingValue(lastCall'.value, TRUE))]_vars

\* C2 witness: the first definition of a key after a start with empty
\* storage.
C2_Witness ==
    /\ lastCall.op = "defineSetting"
    /\ lastCall.err = "none"
    /\ ops = 2
    /\ localStorage[storageKey] = NoItem
    /\ getSetting(LastKey).ret = lastCall.value
    /\ isDefault(LastKey)

\* C3 as stated: right after setSetting(key, v) on a defined key,
\* isDefault(key) is true exactly when v equals the definition's default.
C3_Original ==
    (lastCall.op = "setSetting" /\ LastKey \in Defined) =>
        (isDefault(LastKey) <=> lastCall.value = settingDefinitions[LastKey].defaultValue)

\* C4: after resetToDefault(key) on a defined key, whatever it held,
\* getSetting(key) is the definition's default and isDefault(key) is true.
C4_ResetRestoresDefault ==
    (lastCall.op = "resetToDefault" /\ LastKey \in Defined) =>
        /\ lastCall.err # "NotFound"
        /\ getSetting(LastKey) =
              [err |-> "none", ret |-> settingDefinitions[LastKey].defaultValue]
        /\ isDefault(LastKey)

\* C4 witness: a reset that an observer saw replace a value other than the
\* default.
C4_Witness ==
    /\ lastCall.op = "resetToDefault"
    /\ LastKey \in Defined
    /\ NumCalls > 0
    /\ lastCall.calls[1].oldValue # settingDefinitions[LastKey].defaultValue
    /\ getSetting(LastKey).ret = settingDefinitions[LastKey].defaultValue

\* C5 as stated: getSetting fails with NotFoundError, returning nothing,
\* for every key that has not been defined.
C5_Original ==
    instance => \A k \in Keys \ Defined :
                   getSetting(k) = [err |-> "NotFound", ret |-> Undefined]

\* C6 as stated: setSetting on a key that has not been defined fails with
\* NotFoundError, changes neither the value store nor the stored snapshot,
\* and invokes no observer.
C6_Original ==
    [][(lastCall'.op = "setSetting" /\ lastCall'.key \notin Defined) =>
          /\ lastCall'.err = "NotFound"
          /\ settings' = settings
          /\ localStorage' = localStorage
          /\ lastCall'.calls = << >>]_vars

\* C7 as stated: isDefault(key) is true for every key without a definition.
C7_Original ==
    instance => \A k \in Keys \ Defined : isDefault(k) = TRUE

\* C8: whenever an observer runs in setSetting(key, v), getSetting(key)
\* already returns v, and if the write succeeded the stored snapshot is
\* already the one of the store that holds v.
C8_PersistBeforeNotify ==
    lastCall.op = "setSetting" =>
        \A i \in 1..NumCalls :
            /\ lastCall.calls[i].seenValue = lastCall.value
            /\ lastCall.writeOk =>
                  /\ lastCall.calls[i].seenItem = SerializeSettings(version, settings)
                  /\ lastCall.calls[i].seenItem.settings[LastKey].value =
                        JSONstringify(lastCall.value)

\* C8 witness: an observer ran in a setSetting whose write succeeded and
\* which changed the value.
C8_Witness ==
    /\ lastCall.op = "setSetting"
    /\ lastCall.writeOk
    /\ NumCalls > 0
    /\ lastCall.calls[1].oldValue # lastCall.value
    /\ lastCall.calls[1].seenItem.settings[LastKey].value = lastCall.value

\* C9: a setSetting(key, v) that returns normally has invoked the callbacks
\* registered on key, each once, in registration order, with (v, the value
\* key held before the call), and nothing else.
C9_DispatchInOrder ==
    [][(lastCall'.op = "setSetting" /\ lastCall'.err = "none") =>
          /\ Len(lastCall'.calls) = Len(changeCallbacks[lastCall'.key])
          /\ \A i \in 1..Len(lastCall'.calls) :
                /\ lastCall'.calls[i].cb = changeCallbacks[lastCall'.key][i]
                /\ lastCall'.calls[i].key = lastCall'.key
                /\ lastCall'.calls[i].newValue = lastCall'.value
                /\ lastCall'.calls[i].oldValue = settings[lastCall'.key].value]_vars

\* C9 witness: two callbacks on the key, the other key has a subscriber
\* too, and the call changed the value.
C9_Witness ==
    /\ lastCall.op = "setSetting"
    /\ lastCall.err = "none"
    /\ NumCalls = 2
    /\ lastCall.calls[1].cb # lastCall.calls[2].cb
    /\ lastCall.calls[1].oldValue # lastCall.value

\* C10: when an observer throws in setSetting(key, v), the exception reaches
\* the caller, the observers registered after it are not invoked, and the
\* value v and the snapshot already written stay.
C10_ThrowEndsDispatch ==
    (lastCall.op = "setSetting" /\ \E i \in 1..NumCalls : lastCall.calls[i].threw) =>
        /\ lastCall.err = "CallbackError"
        /\ \A i \in 1..NumCalls : lastCall.calls[i].threw <=> i = NumCalls
        /\ NumCalls <= Len(changeCallbacks[LastKey])
        /\ \A i \in 1..NumCalls : lastCall.calls[i].cb = changeCallbacks[LastKey][i]
        /\ settings[LastKey].value = lastCall.value
        /\ lastCall.writeOk => localStorage[storageKey] = SerializeSettings(version, settings)

\* C10 witness: the first of two observers threw, after a successful write.
C10_Witness ==
    /\ lastCall.op = "setSetting"
    /\ lastCall.err = "CallbackError"
    /\ lastCall.writeOk
    /\ NumCalls = 1
    /\ Len(changeCallbacks[LastKey]) = 2
    /\ settings[LastKey].value = lastCall.value

(***************************************************************************)
(* Start-up: loading the snapshot, the singleton, storage failures.        *)
(***************************************************************************)

\* The item stored under the namespace of the store.
StoredItem == localStorage[storageKey]

\* Only initialize and the registration of each defined key have been called
\* so far: every defined key took one call, the instance took one more.
StartupOnly == instance /\ ops = 1 + Cardinality(Defined)

\* Every value the store holds is the default of its key's definition,
\* flagged as default.
AllAtDefault ==
    \A k \in DOMAIN settings :
        /\ k \in Defined
        /\ settings[k] = SettingValue(settingDefinitions[k].defaultValue, TRUE)

\* C11: when the stored snapshot carries another version than the one
\* configured, then after initialize and the registration of the definitions
\* every defined setting holds its definition's default with isDefault true,
\* and getSetting returns the default for a defined key and fails for any
\* other key: nothing of the discarded snapshot is returned.
C11_MismatchDiscardsSnapshot ==
    (StartupOnly /\ StoredItem.kind = "snapshot" /\ StoredItem.version # version) =>
        /\ AllAtDefault
        /\ \A k \in Keys :
              /\ k \in Defined =>
                    /\ getSetting(k) =
                          [err |-> "none", ret |-> settingDefinitions[k].defaultValue]
                    /\ isDefault(k)
              /\ k \notin Defined => getSetting(k).err = "NotFound"

C11_Witness ==
    /\ StartupOnly
    /\ StoredItem.kind = "snapshot"
    /\ StoredItem.version # version
    /\ Defined = Keys
    /\ \E k \in DOMAIN StoredItem.settings :
          getSetting(k).ret # StoredItem.settings[k].value

\* The store a later run of the program constructs over the storage of this
\* state, with the same namespace and version: new UserScriptSettings(...)
\* on fresh fields.
Reloaded ==
    constructor([This EXCEPT !.settings = EmptyMap,
                             !.defaultSettings = [keys |-> << >>, val |-> EmptyMap],
                             !.settingDefinitions = EmptyMap,
                             !.changeCallbacks = [k \in Keys |-> << >>]],
                storageKey, version, TRUE, TRUE)

\* The stored item is the snapshot saveSettings writes of the present values.
Saved == instance /\ StoredItem = SerializeSettings(version, settings)

\* C12: save-then-load round trip: when the state of the store has been
\* saved, a store loaded with the same namespace and version holds exactly
\* the keys of the saved state, each with an identical (value, isDefault).
C12_Original ==
    Saved => Reloaded.settings = settings

\* C13: defineSetting on a key that already holds a value leaves the value
\* unchanged: getSetting(key) returns after the call what it returned
\* before it, whether the definition was accepted or rejected.
C13_DefineKeepsValue ==
    [][(lastCall'.op = "defineSetting" /\ lastCall'.key \in DOMAIN settings) =>
          /\ lastCall'.key \in DOMAIN settings'
          /\ settings'[lastCall'.key].value = settings[lastCall'.key].value]_vars

C13_Witness ==
    /\ lastCall.op = "defineSetting"
    /\ lastCall.err = "none"
    /\ getSetting(LastKey).err = "none"
    /\ getSetting(LastKey).ret # lastCall.value

\* C14: when defineSetting registers a key for which a persisted value was
\* loaded (the key holds a value although only initialize and first
\* registrations of other keys have run), the persisted value is kept and
\* the isDefault flag is recomputed: afterwards isDefault(key) is true
\* exactly when the persisted value equals the definition's default,
\* whatever flag the snapshot stored.
C14_Original ==
    [][(/\ lastCall'.op = "defineSetting"
        /\ lastCall'.err = "none"
        /\ StartupOnly
        /\ lastCall'.key \notin Defined
        /\ lastCall'.key \in DOMAIN settings) =>
          /\ settings'[lastCall'.key].value = settings[lastCall'.key].value
          /\ settings'[lastCall'.key].isDefault
                <=> (settings[lastCall'.key].value = lastCall'.value)]_vars

\* C15: initialize is idempotent: the first call constructs the store with
\* the namespace and version it is given and raises nothing; every later
\* call, whatever namespace and version it passes, raises nothing and leaves
\* the instance, its namespace, its version, the definitions, the defaults,
\* the values, the subscriptions and the storage as they were (a second
\* load would overwrite values with the stored ones).
C15_InitializeIdempotent ==
    [][lastCall'.op = "initialize" =>
          /\ lastCall'.err = "none"
          /\ instance'
          /\ ~instance => /\ storageKey' = lastCall'.key
                          /\ Str(version') = lastCall'.value
          /\ instance => UNCHANGED <<storageKey, version, settings, defaultSettings,
                                     settingDefinitions, changeCallbacks, localStorage>>]_vars

C15_Witness ==
    /\ lastCall.op = "initialize"
    /\ lastCall.key # storageKey
    /\ lastCall.value # Str(version)
    /\ Defined # {}
    /\ Subscribed(Keys) # {}
    /\ StoredItem.kind = "snapshot"
    /\ \E k \in DOMAIN StoredItem.settings :
          k \in DOMAIN settings /\ settings[k] # StoredItem.settings[k]

\* C16: getInstance fails with the not-initialized error in every state in
\* which initialize has never been called (no instance exists), and in every
\* later state it raises nothing and returns the one instance initialize
\* created: the instance and all of its fields are as they were.
C16_GetInstance ==
    [][lastCall'.op = "getInstance" =>
          /\ lastCall'.err = (IF instance THEN "none" ELSE "NotInitialized")
          /\ UNCHANGED <<instance, storageKey, version, settings, defaultSettings,
                         settingDefinitions, changeCallbacks, localStorage>>]_vars

C16_Witness ==
    /\ lastCall.op = "getInstance"
    /\ lastCall.err = "none"
    /\ instance
    /\ Defined # {}

\* C17: a read of storage that throws and a stored text that does not parse
\* never raise an error out of initialize; the store then starts with no
\* loaded value, and the settings defined afterwards hold their defaults.
C17_FailedLoadStartsEmpty ==
    /\ lastCall.op = "initialize" => lastCall.err = "none"
    /\ (lastCall.op = "initialize" /\ ~lastCall.readOk) => settings = EmptyMap
    /\ (StartupOnly /\ StoredItem.kind = "corrupt") => AllAtDefault

C17_Witness ==
    /\ StartupOnly
    /\ StoredItem.kind = "corrupt"
    /\ Defined = Keys
    /\ \A k \in Keys : getSetting(k).ret = settingDefinitions[k].defaultValue

\* C18: when the write to storage fails during setSetting(key, v) on a key
\* that holds a value, the call raises nothing because of it (the only error
\* it can raise is the one an observer threw), the store holds v, the stored
\* snapshot keeps its previous content, and the observers are notified as
\* after a successful write: in subscription order, with v, up to the first
\* one that throws.
C18_FailedWriteKeepsValue ==
    [][(lastCall'.op = "setSetting" /\ ~lastCall'.writeOk
            /\ lastCall'.key \in DOMAIN settings) =>
          LET key == lastCall'.key
              calls == lastCall'.calls
          IN /\ lastCall'.err \in {"none", "CallbackError"}
             /\ lastCall'.err = "CallbackError" <=>
                    \E i \in 1..Len(calls) : calls[i].threw
             /\ settings'[key].value = lastCall'.value
             /\ localStorage' = localStorage
             /\ lastCall'.err = "none" => Len(calls) = Len(changeCallbacks[key])
             /\ \A i \in 1..Len(calls) :
                   /\ calls[i].cb = changeCallbacks[key][i]
                   /\ calls[i].newValue = lastCall'.value
                   /\ calls[i].oldValue = settings[key].value
                   /\ calls[i].seenItem = localStorage[storageKey]]_vars

C18_Witness ==
    /\ lastCall.op = "setSetting"
    /\ ~lastCall.writeOk
    /\ lastCall.err = "none"
    /\ NumCalls = 2
    /\ StoredItem.kind = "snapshot"
    /\ LastKey \in DOMAIN StoredItem.settings
    /\ StoredItem.settings[LastKey].value # JSONstringify(lastCall.value)
    /\ settings[LastKey].value = lastCall.value

(***************************************************************************)
(* Validation of definitions.                                              *)
(***************************************************************************)

\* C19: a definition that supplies a validator is registered exactly when
\* the built-in check of its type passes and the validator returns true for
\* the default; for the custom type, which has no built-in check, the
\* validator alone decides.  A rejected definition fails with the
\* definition error.
C19_Original ==
    [][\A d \in ValidationInputs :
          (d.validator # "none" /\ DefineSetting(d)) =>
             /\ lastCall'.err \in {"none", "DefinitionError"}
             /\ lastCall'.err = "none" <=>
                   (validateSettingDefinition(d) /\ d.validator = "accept")]_vars

\* C20: defineSetting on a dropdown (radio) definition succeeds exactly when
\* options.dropdown.choices (options.radio.choices) is present, is not empty
\* and contains a choice whose value is the default; otherwise it fails with
\* the definition error.
C20_ChoicesDecide ==
    [][\A d \in ChoiceDefinitions :
          LET present == d.optKind = d.type
              nonEmpty == d.choices # << >>
              among == \E i \in 1..Len(d.choices) : d.choices[i] = d.defaultValue
          IN DefineSetting(d) =>
                lastCall'.err = (IF present /\ nonEmpty /\ among
                                 THEN "none" ELSE "DefinitionError")]_vars

C20_Witness ==
    /\ lastCall.op = "defineSetting"
    /\ lastCall.err = "DefinitionError"
    /\ lastCall.value = Str("c")
    /\ "k1" \in Defined
    /\ settingDefinitions["k1"].type = "radio"

\* C21: defineSetting on a slider definition succeeds exactly when the
\* slider options give both min and max and the default is a number with
\* min <= default <= max; otherwise, in particular when min or max is left
\* out, it fails with the definition error.
C21_Original ==
    [][\A d \in SliderDefinitions :
          LET bounds == d.optKind = "slider" /\ d.min # Undefined /\ d.max # Undefined
              inside == /\ IsFinite(d.defaultValue)
                        /\ d.min.n <= d.defaultValue.n
                        /\ d.defaultValue.n <= d.max.n
          IN DefineSetting(d) =>
                lastCall'.err = (IF bounds /\ inside THEN "none" ELSE "DefinitionError")]_vars

\* C22: defineSetting on a text definition succeeds exactly when the default
\* is a string and, when maxLength is given (0 included), the length of the
\* default is at most maxLength; otherwise it fails with the definition
\* error.
C22_Original ==
    [][\A d \in TextDefinitions :
          LET given == d.optKind = "text" /\ d.maxLength # Undefined
              fits == given => StrLength(d.defaultValue) <= d.maxLength.n
          IN DefineSetting(d) =>
                lastCall'.err = (IF d.defaultValue.t = "string" /\ fits
                                 THEN "none" ELSE "DefinitionError")]_vars

\* C23: defineSetting on a number definition succeeds exactly when the
\* default is a number and each of min and max that is given (0 included)
\* bounds it: min <= default, default <= max, each checked on its own;
\* otherwise it fails with the definition error.
C23_Original ==
    [][\A d \in NumberDefinitions :
          LET minGiven == d.optKind = "number" /\ d.min # Undefined
              maxGiven == d.optKind = "number" /\ d.max # Undefined
              minHolds == minGiven =>
                             IsFinite(d.defaultValue) /\ d.min.n <= d.defaultValue.n
              maxHolds == maxGiven =>
                             IsFinite(d.defaultValue) /\ d.defaultValue.n <= d.max.n
          IN DefineSetting(d) =>
                lastCall'.err = (IF d.defaultValue.t = "number" /\ minHolds /\ maxHolds
                                 THEN "none" ELSE "DefinitionError")]_vars

(***************************************************************************)
(* Registration, reset and subscriptions.                                  *)
(***************************************************************************)

\* C24: a defineSetting call that fails with the definition error changes
\* nothing: the definitions (an earlier definition of the same key
\* included), the stored defaults, the values, the subscriptions and the
\* stored snapshot are what they were before the call.
C24_FailedDefineChangesNothing ==
    [][(lastCall'.op = "defineSetting" /\ lastCall'.err # "none") =>
          /\ lastCall'.err = "DefinitionError"
          /\ UNCHANGED <<instance, storageKey, version, settings, defaultSettings,
                         settingDefinitions, changeCallbacks, localStorage>>]_vars

C24_Witness ==
    /\ lastCall.op = "defineSetting"
    /\ lastCall.err = "DefinitionError"
    /\ LastKey \in Defined
    /\ settingDefinitions[LastKey].defaultValue # lastCall.value
    /\ Subscribed({LastKey}) # {}
    /\ StoredItem.kind = "snapshot"

\* C25: re-registration is last writer wins: after a valid defineSetting for
\* a key that already has a definition, getAllSettings()[key] is the new
\* definition (every field of it, so nothing of the old one is left), and
\* resetToDefault(key) called then leaves the key at the new definition's
\* default.
C25_LastDefinitionWins ==
    [][(lastCall'.op = "defineSetting" /\ lastCall'.err = "none"
            /\ lastCall'.key \in Defined) =>
          \A d \in DefinitionsFor(lastCall'.key) :
             DefineSetting(d) =>
                /\ getAllSettings'[d.key] = d
                /\ (resetToDefault(This, d.key, TRUE, {}).settings[d.key].value)'
                      = d.defaultValue]_vars

\* C25 witness: k1, defined with the default 1 and a range, has been
\* re-defined with the default Infinity and no options.
C25_Witness ==
    /\ lastCall.op = "defineSetting"
    /\ lastCall.err = "none"
    /\ LastKey = "k1"
    /\ lastCall.value = Infinity
    /\ settings["k1"] = SettingValue(Num(1), TRUE)
    /\ getAllSettings["k1"].optKind = "none"
    /\ getAllSettings["k1"].min = Undefined

C27_ResetAllKeyByKey ==
    [][(lastCall'.op = "resetAllToDefaults" /\ lastCall'.err = "none") =>
          LET keys == defaultSettings.keys
              calls == lastCall'.calls
              Pos(k) == CHOOSE i \in 1..Len(keys) : keys[i] = k
              Before(k) == IF Pos(k) = 1 THEN 0
                           ELSE Len(changeCallbacks[keys[1]])
              Default(k) == settingDefinitions[k].defaultValue
              ResetUpTo(k) == [x \in DOMAIN settings |->
                                 IF x \in Defined /\ Pos(x) <= Pos(k)
                                 THEN SettingValue(Default(x), TRUE)
                                 ELSE settings[x]]
          IN /\ \A k \in Defined : settings'[k] = SettingValue(Default(k), TRUE)
             /\ \A k \in DOMAIN settings \ Defined : settings'[k] = settings[k]
             /\ Len(calls) = Len(changeCallbacks["k1"] \o changeCallbacks["k2"])
                               - (IF "k1" \in Defined THEN 0 ELSE Len(changeCallbacks["k1"]))
                               - (IF "k2" \in Defined THEN 0 ELSE Len(changeCallbacks["k2"]))
             /\ \A i \in 1..Len(calls) :
                   LET k == calls[i].key
                   IN /\ k \in Defined
                      /\ i > Before(k)
                      /\ calls[i].cb = changeCallbacks[k][i - Before(k)]
                      /\ calls[i].newValue = Default(k)
                      /\ calls[i].oldValue = settings[k].value
                      /\ calls[i].seenValue = Default(k)
                      /\ lastCall'.writeOk =>
                            calls[i].seenItem = SerializeSettings(version, ResetUpTo(k))]_vars

\* C27 witness: k2 was registered before k1; the observer of k2 ran while
\* the stored snapshot still held the value of k1 that the call went on to
\* reset.
C27_Witness ==
    /\ lastCall.op = "resetAllToDefaults"
    /\ lastCall.err = "none"
    /\ lastCall.writeOk
    /\ defaultSettings.keys = <<"k2", "k1">>
    /\ NumCalls = 1
    /\ lastCall.calls[1].key = "k2"
    /\ lastCall.calls[1].seenItem.settings["k1"] # settings["k1"]
    /\ StoredItem = SerializeSettings(version, settings)

\* C28: registering a callback that is already subscribed to the key changes
\* nothing, so the callback keeps the place of its first registration and a
\* dispatch invokes it once; a callback not yet subscribed is added after the
\* ones already there, which are all kept.  The subscriptions of other keys
\* and the rest of the store are untouched, and no dispatch invokes a
\* callback twice.
C28_DuplicateSubscriptionIsNoOp ==
    [][/\ lastCall'.op = "onSettingChange" =>
             LET key == lastCall'.key
                 callback == lastCall'.value.s
                 subscribers == changeCallbacks[key]
             IN /\ lastCall'.err = "none"
                /\ changeCallbacks'[key] =
                      (IF \E i \in 1..Len(subscribers) : subscribers[i] = callback
                       THEN subscribers ELSE subscribers \o <<callback>>)
                /\ \A k \in Keys \ {key} : changeCallbacks'[k] = changeCallbacks[k]
                /\ UNCHANGED <<settings, defaultSettings, settingDefinitions, localStorage>>
       /\ lastCall'.op = "setSetting" =>
             \A i, j \in 1..Len(lastCall'.calls) :
                lastCall'.calls[i].cb = lastCall'.calls[j].cb => i = j]_vars

\* C28 witness: cb1 has just been registered on a key where it already
\* stood before cb2.
C28_Witness ==
    /\ lastCall.op = "onSettingChange"
    /\ lastCall.value = Str("cb1")
    /\ changeCallbacks[LastKey] = <<"cb1", "cb2">>

\* C29: removeSettingChangeListener(key, cb) removes the subscription of cb
\* to key and nothing else: the other subscribers of key keep their order,
\* the subscriptions of the other keys and the rest of the store are as
\* they were, no error is raised, and when cb is not subscribed to key
\* nothing changes at all.  A later change of key invokes subscribers only,
\* so it does not invoke cb.
C29_RemoveExactlyOne ==
    [][/\ lastCall'.op = "removeSettingChangeListener" =>
             LET key == lastCall'.key
                 callback == lastCall'.value.s
             IN /\ lastCall'.err = "none"
                /\ changeCallbacks'[key] =
                      SelectSeq(changeCallbacks[key], LAMBDA c : c # callback)
                /\ (\A i \in 1..Len(changeCallbacks[key]) :
                         changeCallbacks[key][i] # callback) =>
                      changeCallbacks' = changeCallbacks
                /\ \A k \in Keys \ {key} : changeCallbacks'[k] = changeCallbacks[k]
                /\ UNCHANGED <<settings, defaultSettings, settingDefinitions, localStorage>>
       /\ lastCall'.op \in {"setSetting", "resetToDefault"} =>
             \A i \in 1..Len(lastCall'.calls) :
                \E s \in 1..Len(changeCallbacks[lastCall'.key]) :
                   lastCall'.calls[i].cb = changeCallbacks[lastCall'.key][s]]_vars

\* C29 witness: removeSettingChangeListener(key, cb1) has returned on a key
\* that keeps its subscriber cb2, while cb1 stays subscribed to the other
\* key.
C29_Witness ==
    /\ lastCall.op = "removeSettingChangeListener"
    /\ lastCall.value = Str("cb1")
    /\ changeCallbacks[LastKey] = <<"cb2">>
    /\ \E k \in Keys \ {LastKey} : changeCallbacks[k] = <<"cb1">>

\* C30: the dispatch of setSetting(key, v) invokes every callback that was
\* subscribed to key when the call was made exactly once, and the call
\* returns, also when callbacks subscribe or unsubscribe listeners of key
\* while the dispatch runs (no observer throws here).
C30_Original ==
    [][(lastCall'.op = "setSetting" /\ lastCall'.err # "NotFound") =>
          LET subscribers == changeCallbacks[lastCall'.key]
              calls == lastCall'.calls
          IN /\ lastCall'.err = "none"
             /\ \A s \in 1..Len(subscribers) :
                   Cardinality({i \in 1..Len(calls) : calls[i].cb = subscribers[s]}) = 1]_vars

(***************************************************************************)
(* The caller of getAllSettings changes what it was given.  The result is  *)
(* a new object, but each of its properties holds the definition object    *)
(* that defineSetting stored, not a copy of it.                            *)
(***************************************************************************)

\* What the caller does with result = getAllSettings(): nothing,
\* result[key] = ..., delete result[key], or result[key].defaultValue = value.
Mutations == {"none", "addKey", "deleteKey", "setDefaultValue"}

\* The store after the caller's mutation: adding and deleting properties
\* changes the result object only; a write to a field of result[key] is a
\* write to the registered definition.  Without a definition of key,
\* result[key] is undefined and the write throws in the caller.
mutateResult(st, mutation, key, value) ==
    IF mutation = "setDefaultValue" /\ key \in DOMAIN st.settingDefinitions
    THEN [st EXCEPT !.settingDefinitions[key].defaultValue = value]
    ELSE st

GetAllSettings(mutation, key, value) ==
    /\ instance
    /\ Counted
    /\ Becomes(mutateResult(This, mutation, key, value))
    /\ lastCall' = Call("getAllSettings", key, value, "none", Str(mutation), << >>, TRUE)
    /\ UNCHANGED instance

\* A store over empty storage whose caller reads the definitions with
\* getAllSettings and mutates the result.
NextView ==
    \/ \E ns \in Namespaces : Initialize(ns, "1.0", TRUE, TRUE)
    \/ \E definition \in Definitions : DefineSetting(definition)
    \/ \E mutation \in Mutations, key \in Keys, value \in Values :
          GetAllSettings(mutation, key, value)
    \/ \E key \in Keys, value \in Values : SetSetting(key, value, TRUE, {})
    \/ \E key \in Keys : ResetToDefault(key, TRUE, {})
    \/ \E key \in Keys : IsDefault(key)

SpecView == InitValidate /\ [][NextView]_vars

\* C31: a call of getAllSettings, whatever the caller then does to the
\* returned structure (adding or deleting keys, changing a field of a
\* returned definition), changes neither the registered definitions nor the
\* defaults that resetToDefault and isDefault use.
C31_Original ==
    [][lastCall'.op = "getAllSettings"
          => /\ settingDefinitions' = settingDefinitions
             /\ defaultSettings' = defaultSettings]_vars

(***************************************************************************)
(* The calls the README documents: defineSetting(key, config),             *)
(* resetSetting(key) and resetAllSettings().                               *)
(***************************************************************************)

\* The Map key undefined, which is none of the strings.
UndefinedKey == "undefined"

\* What defineSetting reads from its parameter when it is handed a string:
\* key, type, options and defaultValue of a string are all undefined.
StringAsDefinition ==
    Definition(UndefinedKey, "undefined", Undefined, "none", << >>,
               Undefined, Undefined, Undefined, "none")

\* defineSetting(key, config): the method has one parameter, so the key is
\* taken for the definition and config is dropped.
defineSettingWithKey(st, key, config) == defineSetting(st, StringAsDefinition)

DefineSettingWithKey(key, config) ==
    /\ instance
    /\ Counted
    /\ LET done == defineSettingWithKey(This, key, config)
       IN /\ Becomes(done)
          /\ lastCall' = Call("defineSetting(key, config)", key, config.defaultValue,
                              done.err, Undefined, done.calls, TRUE)
    /\ UNCHANGED instance

\* settings.resetSetting(key): the class has no member of this name, the
\* call throws a TypeError.
ResetSetting(key) ==
    /\ instance
    /\ Counted
    /\ lastCall' = Call("resetSetting", key, Undefined, "TypeError", Undefined, << >>, TRUE)
    /\ UNCHANGED <<instance, storageKey, version, settings, defaultSettings,
                   settingDefinitions, changeCallbacks, localStorage>>

\* settings.resetAllSettings(): no member of this name either.
ResetAllSettings ==
    /\ instance
    /\ Counted
    /\ lastCall' = Call("resetAllSettings", "", Undefined, "TypeError", Undefined, << >>, TRUE)
    /\ UNCHANGED <<instance, storageKey, version, settings, defaultSettings,
                   settingDefinitions, changeCallbacks, localStorage>>

\* A host script that follows the README, next to the calls the class
\* does have.
NextReadme ==
    \/ \E ns \in Namespaces : Initialize(ns, "1.0", TRUE, TRUE)
    \/ \E key \in Keys : \E config \in DefinitionsFor(key) : DefineSettingWithKey(key, config)
    \/ \E definition \in Definitions : DefineSetting(definition)
    \/ \E key \in Keys : GetSetting(key)
    \/ \E key \in Keys, value \in Values : SetSetting(key, value, TRUE, {})
    \/ \E key \in Keys : ResetSetting(key)
    \/ ResetAllSettings

SpecReadme == InitValidate /\ [][NextReadme]_vars

\* C32: the documented calls work: after defineSetting(key, config) returns,
\* getSetting(key) returns config.defaultValue; resetSetting(key) returns
\* and leaves key at its default; resetAllSettings() returns and leaves
\* every defined key at its default.
C32_Original ==
    /\ (lastCall.op = "defineSetting(key, config)" /\ lastCall.err = "none")
          => getSetting(lastCall.key) = [err |-> "none", ret |-> lastCall.value]
    /\ lastCall.op = "resetSetting"
          => /\ lastCall.err = "none"
             /\ lastCall.key \in Defined
                   => settings[lastCall.key].value
                         = settingDefinitions[lastCall.key].defaultValue
    /\ lastCall.op = "resetAllSettings"
          => /\ lastCall.err = "none"
             /\ \A k \in Defined : settings[k].value = settingDefinitions[k].defaultValue

\* C33: for every defined key, the stored isDefault flag is true exactly
\* when the current value equals the defaultValue of the current
\* definition, also after the key was defined again with another default.
C33_Original ==
    \A k \in Defined :
        k \in DOMAIN settings
           => (settings[k].isDefault
                  <=> settings[k].value = settingDefinitions[k].defaultValue)

(***************************************************************************)
(* Observers that call setSetting on their own key while they run.  The    *)
(* inner call stores, saves and dispatches to every subscriber before it   *)
(* returns into the observer; the outer forEach then goes on with the      *)
(* arguments of the outer call.                                            *)
(***************************************************************************)

\* What an observer does with a notification: nothing (Undefined), or, when
\* the new value is not the one it wants, setSetting(key, wanted).
Reactions == {Undefined, Num(1), Num(5)}

RECURSIVE setSettingReentrant(_, _, _, _)
RECURSIVE notifyReentrant(_, _, _, _, _, _)

\* callbacks.forEach(callback => callback(value, oldSetting.value)) from the
\* i-th subscriber on.  A call that has made MaxInvocations invocations and
\* has more to make is cut and reported as not returning.
notifyReentrant(st, key, i, value, oldValue, reactions) ==
    LET subscribers == st.changeCallbacks[key]
    IN IF i > Len(subscribers) \/ st.err # "none" THEN st
       ELSE IF Len(st.calls) >= MaxInvocations THEN [st EXCEPT !.err = "NoReturn"]
       ELSE LET callback == subscribers[i]
                wanted == reactions[callback]
                invoked == [st EXCEPT !.calls =
                    Append(@, Invocation(st, callback, key, value, oldValue, FALSE))]
                returned == IF wanted # Undefined /\ value # wanted
                            THEN setSettingReentrant(invoked, key, wanted, reactions)
                            ELSE invoked
            IN notifyReentrant(returned, key, i + 1, value, oldValue, reactions)

\* setSetting when the observers react as reactions says; storage accepts
\* every write.
setSettingReentrant(st, key, value, reactions) ==
    IF key \notin DOMAIN st.settings
    THEN [st EXCEPT !.err = "NotFound"]
    ELSE LET oldSetting == st.settings[key]
             defaultValue == MapGet(st.defaultSettings.val, key)
             flag == JSONstringify(value) = JSONstringify(defaultValue)
             stored == [st EXCEPT !.settings[key] = SettingValue(value, flag)]
             saved == saveSettings(stored, TRUE)
         IN notifyReentrant(saved, key, 1, value, oldSetting.value, reactions)

SetSettingReentrant(key, value, reactions) ==
    /\ instance
    /\ Counted
    /\ LET done == setSettingReentrant(This, key, value, reactions)
       IN /\ Becomes(done)
          /\ lastCall' = Call("setSetting", key, value, done.err, Undefined,
                              done.calls, TRUE)
    /\ UNCHANGED instance

\* A store over empty storage, the key k2 with one definition, subscriptions,
\* and calls of setSetting whose observers set k2 again.
NextReentrant ==
    \/ \E ns \in Namespaces : Initialize(ns, "1.0", TRUE, TRUE)
    \/ \E definition \in DefinitionsFor("k2") : DefineSetting(definition)
    \/ \E callback \in Callbacks : OnSettingChange("k2", callback)
    \/ \E value \in Values, reactions \in [Callbacks -> Reactions] :
          SetSettingReentrant("k2", value, reactions)

SpecReentrant == InitValidate /\ [][NextReentrant]_vars

\* The newValue of the last notification a callback received in the call.
LastNotified(callback) ==
    LET received == { i \in 1..NumCalls : lastCall.calls[i].cb = callback }
        last == CHOOSE i \in received : \A j \in received : j <= i
    IN lastCall.calls[last].newValue

\* C34: after a setSetting(k, v) call has returned, also one during whose
\* dispatch an observer of k called setSetting(k, w), the last notification
\* of every observer of k carries the value getSetting(k) returns.
C34_Original ==
    (lastCall.op = "setSetting" /\ lastCall.err = "none")
       => \A i \in 1..Len(changeCallbacks[lastCall.key]) :
             LastNotified(changeCallbacks[lastCall.key][i]) = getSetting(lastCall.key).ret

\* C35: a setSetting call that stores the value the key already holds, and
\* a resetToDefault call on a key that already holds its default, invokes no
\* observer and writes nothing to storage.
C35_Original ==
    [][(/\ lastCall'.op \in {"setSetting", "resetToDefault"}
        /\ lastCall'.key \in DOMAIN settings
        /\ lastCall'.err # "NotFound"
        /\ settings'[lastCall'.key].value = settings[lastCall'.key].value)
          => /\ lastCall'.calls = << >>
             /\ localStorage' = localStorage]_vars

\* The last call was a setSetting or a reset that wrote to storage, and
\* storage accepted what it wrote.
WroteSnapshot ==
    /\ lastCall.writeOk
    /\ \/ lastCall.op \in {"setSetting", "resetToDefault"} /\ lastCall.err # "NotFound"
       \/ lastCall.op = "resetAllToDefaults" /\ defaultSettings.keys # << >>

\* C36: right after a setSetting or reset call whose write succeeded, the
\* stored snapshot has the configured version and holds exactly the keys of
\* the Value Store, each with the value and the flag the store holds.
C36_Original ==
    WroteSnapshot
       => /\ StoredItem.kind = "snapshot"
          /\ StoredItem.version = version
          /\ StoredItem.settings = settings

\* C37: after resetAllToDefaults has returned normally, every entry of the
\* Value Store has isDefault true, also an entry loaded from a snapshot for
\* a key without a definition, and so has every entry of the snapshot the
\* call wrote.
C37_Original ==
    (lastCall.op = "resetAllToDefaults" /\ lastCall.err = "none")
       => /\ \A k \in DOMAIN settings : settings[k].isDefault
          /\ WroteSnapshot
                => \A k \in DOMAIN StoredItem.settings : StoredItem.settings[k].isDefault

(***************************************************************************)
(* SettingsUI: the effect that listens for setting changes.  Each run of   *)
(* the effect declares a function handleSettingChange and subscribes, for  *)
(* every defined key, a new arrow function that calls it; the cleanup      *)
(* passes handleSettingChange itself to removeSettingChangeListener.       *)
(***************************************************************************)

\* The functions a run of the effect creates: one handleSettingChange, and
\* one arrow (newValue) => handleSettingChange(key, newValue) per key.
HandleSettingChange(run) == [fn |-> "handleSettingChange", run |-> run, key |-> ""]
Arrow(run, key) == [fn |-> "arrow", run |-> run, key |-> key]

\* Object.keys(settings.getAllSettings()).forEach(key =>
\*     settings.onSettingChange(key, (newValue) => handleSettingChange(key, newValue)))
effectBody(st, run) ==
    [st EXCEPT !.changeCallbacks =
        [k \in DOMAIN @ |->
            IF k \in DOMAIN getAllSettings
            THEN onSettingChange(st, k, Arrow(run, k)).changeCallbacks[k]
            ELSE @[k]]]

\* Object.keys(settings.getAllSettings()).forEach(key =>
\*     settings.removeSettingChangeListener(key, handleSettingChange))
effectCleanup(st, run) ==
    [st EXCEPT !.changeCallbacks =
        [k \in DOMAIN @ |->
            IF k \in DOMAIN getAllSettings
            THEN removeSettingChangeListener(st, k, HandleSettingChange(run)).changeCallbacks[k]
            ELSE @[k]]]

\* The component mounts (or its settings prop changes): the effect runs.
Mount ==
    /\ instance
    /\ mountedEffect = 0
    /\ ops < MaxOps
    /\ ops' = ops + 1
    /\ mountedEffect' = ops + 1
    /\ Becomes(effectBody(This, ops + 1))
    /\ lastCall' = Call("effect", "", Num(ops + 1), "none", Undefined, << >>, TRUE)
    /\ UNCHANGED instance

\* The component unmounts (or its settings prop changes): the cleanup of
\* the last run of the effect is called.
Cleanup ==
    /\ instance
    /\ mountedEffect # 0
    /\ ops < MaxOps
    /\ ops' = ops + 1
    /\ mountedEffect' = 0
    /\ Becomes(effectCleanup(This, mountedEffect))
    /\ lastCall' = Call("cleanup", "", Num(mountedEffect), "none", Undefined, << >>, TRUE)
    /\ UNCHANGED instance

\* A store over empty storage with the component mounting and unmounting
\* while settings are defined and set.
NextUI ==
    \/ \E ns \in Namespaces : Initialize(ns, "1.0", TRUE, TRUE)
    \/ \E definition \in Definitions : DefineSetting(definition)
    \/ Mount
    \/ Cleanup
    \/ \E key \in Keys, value \in Values : SetSetting(key, value, TRUE, {})

SpecUI == InitValidate /\ [][NextUI]_vars

\* C38: after the cleanup of a run of the effect, none of the callbacks that
\* run subscribed through onSettingChange is subscribed on any key.
C38_Original ==
    lastCall.op = "cleanup"
       => \A k \in Keys : \A i \in 1..Len(changeCallbacks[k]) :
             ~(/\ changeCallbacks[k][i].fn = "arrow"
               /\ Num(changeCallbacks[k][i].run) = lastCall.value)

====
